---- MODULE Spec2Model ----
(***************************************************************************)
(* Model of plots.py: a linear script that loads                           *)
(* complete_performance_report.csv into a table, draws and saves three     *)
(* charts, and adds three derived ratio columns before the third chart.    *)
(*                                                                         *)
(* Numbers.  Every table cell is a pair <<n, d>> standing for the float    *)
(* n/d: d > 0 and gcd(n, d) = 1 for a finite value, <<1, 0>> for +inf,     *)
(* <<-1, 0>> for -inf and <<0, 0>> for NaN.  Bar positions and widths are  *)
(* kept in tenths (0.2 is 2, row index i is 10*i).                         *)
(***************************************************************************)
EXTENDS Integers, Sequences, FiniteSets, TLC

VARIABLES file, disk, pc, df, fig, written, results

vars == <<file, disk, pc, df, fig, written, results>>

(***************************************************************************)
(* Bounds of the model                                                     *)
(***************************************************************************)
MaxRows == 2

MaxRuns == 2

(***************************************************************************)
(* Program constants                                                       *)
(***************************************************************************)
DPI == 300

BarWidth == 2

InputName == "complete_performance_report.csv"

Chart1File == "execution_time_comparison.png"

Chart2File == "speedup_comparison.png"

Chart3File == "relative_performance_comparison.png"

OutputFiles == {Chart1File, Chart2File, Chart3File}

(***************************************************************************)
(* Generic helpers                                                         *)
(***************************************************************************)
Range(s) == {s[i] : i \in 1..Len(s)}

Index(s, e) == CHOOSE i \in 1..Len(s) : s[i] = e

Max(a, b) == IF a >= b THEN a ELSE b

Abs(a) == IF a < 0 THEN -a ELSE a

RECURSIVE GCD(_, _)
GCD(a, b) == IF b = 0 THEN a ELSE GCD(b, a % b)

(***************************************************************************)
(* float64 values and true division, as pandas/numpy compute them          *)
(***************************************************************************)
NaN == <<0, 0>>

PosInf == <<1, 0>>

NegInf == <<-1, 0>>

IsNaN(v) == v = NaN

IsFinite(v) == v[2] > 0

IsZero(v) == v[2] > 0 /\ v[1] = 0

Num(i) == <<i, 1>>

Reduce(n, d) ==
    LET g == GCD(Abs(n), Abs(d))
        s == IF d < 0 THEN -1 ELSE 1
    IN  <<(s * n) \div g, (s * d) \div g>>

\* Mutant of TrueDiv: a zero denominator is guarded and yields 0.
TrueDivZeroGuard(a, b) ==
    IF IsNaN(a) \/ IsNaN(b) THEN NaN
    ELSE IF IsZero(b)
         THEN Num(0)
         ELSE Reduce(a[1] * b[2], a[2] * b[1])

\* Series / Series on finite-or-NaN operands: x/0 is +-inf, 0/0 is NaN,
\* NaN propagates; nothing is raised.
TrueDiv(a, b) ==
    IF IsNaN(a) \/ IsNaN(b) THEN NaN
    ELSE IF IsZero(b)
         THEN (IF a[1] = 0 THEN NaN ELSE IF a[1] > 0 THEN PosInf ELSE NegInf)
         ELSE Reduce(a[1] * b[2], a[2] * b[1])

(***************************************************************************)
(* The input file                                                          *)
(***************************************************************************)
FullHeader ==
    << "Input Size", "Sequential Time", "Parallel Time",
       "Optimized Parallel Time", "Parallel Speedup", "Optimized Speedup" >>

Drop(s, k) == [i \in 1..(Len(s) - 1) |-> IF i < k THEN s[i] ELSE s[i + 1]]

\* The complete header, and the header with one column left out.
Headers == {FullHeader} \cup {Drop(FullHeader, k) : k \in 1..Len(FullHeader)}

\* Data lines as sequences of integer literals: well-formed lines (one is
\* the example row 100,10,2,1), lines with a zero denominator, a line with
\* fewer fields than the header and a line with more.
SampleLines ==
    { <<100, 10, 2, 1, 5, 10>>,
      <<1000, 7, 3, 2, 2, 3>>,
      <<10, 3, 2, 0, 1, 4>>,
      <<20, 0, 0, 4, 1, 1>>,
      <<100, 10, 2>>,
      <<5, 100, 10, 2, 1, 5, 10>> }

RowSeqs == UNION {[1..n -> SampleLines] : n \in 1..MaxRows}

MissingFile == [exists |-> FALSE, header |-> <<>>, rows |-> <<>>]

Files ==
    {MissingFile} \cup
    {[exists |-> TRUE, header |-> h, rows |-> r] : h \in Headers, r \in RowSeqs}

(***************************************************************************)
(* pd.read_csv with default arguments                                      *)
(***************************************************************************)
\* Number of fields every tokenized line ends up with: the header's count,
\* or the first data line's if that one is longer.
TableWidth(f) == Max(Len(f.header), Len(f.rows[1]))

\* "Expected N fields in line k, saw M": raised for a data line after the
\* first that has more fields than the lines before it.
TokenizeFails(f) == \E k \in 2..Len(f.rows) : Len(f.rows[k]) > TableWidth(f)

\* Surplus leading fields become the (implicit) index.
LeadingCols(f) == TableWidth(f) - Len(f.header)

\* A line with missing trailing fields is filled up with NaN.
PadLine(line, w) == [j \in 1..w |-> IF j <= Len(line) THEN Num(line[j]) ELSE NaN]

\* Mutant of ReadCsvRaises: every line must have as many fields as the header.
ReadCsvRaisesStrict(f) ==
    ~f.exists \/ \E k \in 1..Len(f.rows) : Len(f.rows[k]) # Len(f.header)

\* FileNotFoundError, or the tokenizer's ParserError.
ReadCsvRaises(f) == ~f.exists \/ TokenizeFails(f)

\* Mutant of ReadCsv: the rows come out in reverse file order.
ReadCsvReversed(f) ==
    [c \in Range(f.header) |->
        [i \in 1..Len(f.rows) |->
            PadLine(f.rows[Len(f.rows) + 1 - i], TableWidth(f))
                   [LeadingCols(f) + Index(f.header, c)]]]

ReadCsv(f) ==
    [c \in Range(f.header) |->
        [i \in 1..Len(f.rows) |->
            PadLine(f.rows[i], TableWidth(f))[LeadingCols(f) + Index(f.header, c)]]]

NoTable == [c \in {} |-> <<>>]

\* len(df)
NRows(t) == IF DOMAIN t = {} THEN 0 ELSE Len(t[CHOOSE c \in DOMAIN t : TRUE])

\* df[name] = value
SetColumn(t, name, col) ==
    [c \in DOMAIN t \cup {name} |-> IF c = name THEN col ELSE t[c]]

(***************************************************************************)
(* Figures                                                                 *)
(***************************************************************************)
NoFigure ==
    [lines |-> <<>>, hlines |-> <<>>, bars |-> <<>>, xticks |-> <<>>,
     xscale |-> "linear", yscale |-> "linear", title |-> ""]

\* Mutant of Chart1Series: the Optimized Parallel line is not plotted.
Chart1SeriesTwo ==
    << [x |-> "Input Size", y |-> "Sequential Time", label |-> "Sequential"],
       [x |-> "Input Size", y |-> "Parallel Time", label |-> "Parallel"] >>

Chart1Series ==
    << [x |-> "Input Size", y |-> "Sequential Time", label |-> "Sequential"],
       [x |-> "Input Size", y |-> "Parallel Time", label |-> "Parallel"],
       [x |-> "Input Size", y |-> "Optimized Parallel Time",
        label |-> "Optimized Parallel"] >>

\* Mutant of Chart2Series: both lines plot Parallel Speedup.
Chart2SeriesSame ==
    << [x |-> "Input Size", y |-> "Parallel Speedup", label |-> "Parallel Speedup"],
       [x |-> "Input Size", y |-> "Parallel Speedup",
        label |-> "Optimized Speedup"] >>

Chart2Series ==
    << [x |-> "Input Size", y |-> "Parallel Speedup", label |-> "Parallel Speedup"],
       [x |-> "Input Size", y |-> "Optimized Speedup",
        label |-> "Optimized Speedup"] >>

\* df[name] raises KeyError when the table has no such column.
HasColumns(t, s) == s.x \in DOMAIN t /\ s.y \in DOMAIN t

\* Position of the first plt.plot call that raises; Len + 1 when none does.
FirstMissing(t, specs) ==
    IF \A k \in 1..Len(specs) : HasColumns(t, specs[k])
    THEN Len(specs) + 1
    ELSE CHOOSE k \in 1..Len(specs) :
            /\ ~HasColumns(t, specs[k])
            /\ \A j \in 1..(k - 1) : HasColumns(t, specs[j])

\* The lines drawn by the plt.plot calls that ran.
LinesDrawn(t, specs) ==
    [k \in 1..(FirstMissing(t, specs) - 1) |->
        [x |-> t[specs[k].x], y |-> t[specs[k].y], label |-> specs[k].label]]

\* np.arange(n), in tenths
Arange(n) == [i \in 1..n |-> 10 * (i - 1)]

\* Mutant of Bars: the bars are as wide as the group (width 0.6).
BarsWide(xs, heights, label) ==
    [i \in 1..Len(xs) |->
        [x |-> xs[i], height |-> heights[i], width |-> 3 * BarWidth, label |-> label]]

\* plt.bar(xs, heights, width=0.2, label=..., align='center')
Bars(xs, heights, label) ==
    [i \in 1..Len(xs) |->
        [x |-> xs[i], height |-> heights[i], width |-> BarWidth, label |-> label]]

Shift(xs, by) == [i \in 1..Len(xs) |-> xs[i] + by]

\* plt.xticks(positions, labels)
XTicks(xs, labels) == [i \in 1..Len(xs) |-> [pos |-> xs[i], label |-> labels[i]]]

Image(f) == [dpi |-> DPI, fig |-> f]

\* What an earlier, unrelated run may have left under an output name.
StaleImage == Image([NoFigure EXCEPT !.title = "stale"])

WriteFile(d, name, img) ==
    [n \in DOMAIN d \cup {name} |-> IF n = name THEN img ELSE d[n]]

Final == {"done", "failed"}

ExitCode(p) == IF p = "done" THEN 0 ELSE 1

(***************************************************************************)
(* State machine                                                           *)
(***************************************************************************)
Init ==
    /\ file \in Files
    /\ disk \in {[n \in s |-> StaleImage] : s \in SUBSET OutputFiles}
    /\ pc = "read_csv"
    /\ df = NoTable
    /\ fig = NoFigure
    /\ written = {}
    /\ results = <<>>

\* Mutant of Load: the baseline column is added right after the load.
LoadEager ==
    /\ pc = "read_csv"
    /\ IF ReadCsvRaises(file)
       THEN pc' = "failed" /\ df' = df
       ELSE /\ pc' = "plot1"
            /\ df' = SetColumn(ReadCsv(file), "Sequential Relative",
                               [i \in 1..Len(file.rows) |-> Num(1)])
    /\ UNCHANGED <<file, disk, fig, written, results>>

\* line 6
Load ==
    /\ pc = "read_csv"
    /\ IF ReadCsvRaises(file)
       THEN pc' = "failed" /\ df' = df
       ELSE pc' = "plot1" /\ df' = ReadCsv(file)
    /\ UNCHANGED <<file, disk, fig, written, results>>

\* lines 9-20
Plot1 ==
    /\ pc = "plot1"
    /\ IF FirstMissing(df, Chart1Series) > Len(Chart1Series)
       THEN /\ fig' = [NoFigure EXCEPT !.lines = LinesDrawn(df, Chart1Series),
                                       !.xscale = "log", !.yscale = "log",
                                       !.title = "Execution Time Comparison"]
            /\ pc' = "savefig1"
       ELSE /\ fig' = [NoFigure EXCEPT !.lines = LinesDrawn(df, Chart1Series)]
            /\ pc' = "failed"
    /\ UNCHANGED <<file, disk, df, written, results>>

\* Mutant of Savefig: an existing file is not overwritten, the call raises.
SavefigExclusive(name, next) ==
    /\ IF name \in DOMAIN disk
       THEN pc' = "failed" /\ UNCHANGED <<disk, written>>
       ELSE /\ disk' = WriteFile(disk, name, Image(fig))
            /\ written' = written \cup {name}
            /\ pc' = next
    /\ UNCHANGED <<file, df, fig, results>>

\* plt.savefig(name, dpi=300)
Savefig(name, next) ==
    /\ disk' = WriteFile(disk, name, Image(fig))
    /\ written' = written \cup {name}
    /\ pc' = next
    /\ UNCHANGED <<file, df, fig, results>>

\* plt.show()
Show(next) ==
    /\ pc' = next
    /\ UNCHANGED <<file, disk, df, fig, written, results>>

\* line 21
Savefig1 == pc = "savefig1" /\ Savefig(Chart1File, "show1")

\* line 22
Show1 == pc = "show1" /\ Show("plot2")

\* lines 25-35
Plot2 ==
    /\ pc = "plot2"
    /\ IF FirstMissing(df, Chart2Series) > Len(Chart2Series)
       THEN /\ fig' = [NoFigure EXCEPT !.lines = LinesDrawn(df, Chart2Series),
                                       !.hlines = <<Num(1)>>,
                                       !.xscale = "log",
                                       !.title = "Speedup Comparison"]
            /\ pc' = "savefig2"
       ELSE /\ fig' = [NoFigure EXCEPT !.lines = LinesDrawn(df, Chart2Series)]
            /\ pc' = "failed"
    /\ UNCHANGED <<file, disk, df, written, results>>

\* Mutant of Savefig2: Chart 2 is saved under Chart 3's file name.
Savefig2WrongName == pc = "savefig2" /\ Savefig(Chart3File, "show2")

\* line 36
Savefig2 == pc = "savefig2" /\ Savefig(Chart2File, "show2")

\* line 37
Show2 == pc = "show2" /\ Show("rel_seq")

\* line 40
RelSeq ==
    /\ pc = "rel_seq"
    /\ df' = SetColumn(df, "Sequential Relative", [i \in 1..NRows(df) |-> Num(1)])
    /\ pc' = "rel_par"
    /\ UNCHANGED <<file, disk, fig, written, results>>

\* Mutant of Ratio: the quotient of the table's first row is used for every row.
RatioFirstRow(t, a, b) == [i \in 1..NRows(t) |-> TrueDiv(t[a][1], t[b][1])]

\* df[a] / df[b]
Ratio(t, a, b) == [i \in 1..NRows(t) |-> TrueDiv(t[a][i], t[b][i])]

\* line 41
RelPar ==
    /\ pc = "rel_par"
    /\ IF {"Sequential Time", "Parallel Time"} \subseteq DOMAIN df
       THEN /\ df' = SetColumn(df, "Parallel Relative",
                               Ratio(df, "Sequential Time", "Parallel Time"))
            /\ pc' = "rel_opt"
       ELSE pc' = "failed" /\ df' = df
    /\ UNCHANGED <<file, disk, fig, written, results>>

\* line 42
RelOpt ==
    /\ pc = "rel_opt"
    /\ IF {"Sequential Time", "Optimized Parallel Time"} \subseteq DOMAIN df
       THEN /\ df' = SetColumn(df, "Optimized Relative",
                               Ratio(df, "Sequential Time", "Optimized Parallel Time"))
            /\ pc' = "plot3"
       ELSE pc' = "failed" /\ df' = df
    /\ UNCHANGED <<file, disk, fig, written, results>>

\* lines 44-54
Plot3 ==
    /\ pc = "plot3"
    /\ LET n == NRows(df)
       IN  fig' = [NoFigure EXCEPT
                     !.bars = Bars(Shift(Arange(n), -BarWidth),
                                   df["Sequential Relative"], "Sequential")
                              \o Bars(Arange(n), df["Parallel Relative"], "Parallel")
                              \o Bars(Shift(Arange(n), BarWidth),
                                      df["Optimized Relative"], "Optimized Parallel"),
                     !.xticks = XTicks(Arange(n), df["Input Size"]),
                     !.title = "Relative Performance Comparison"]
    /\ pc' = "savefig3"
    /\ UNCHANGED <<file, disk, df, written, results>>

\* line 55
Savefig3 == pc = "savefig3" /\ Savefig(Chart3File, "show3")

\* line 56
Show3 == pc = "show3" /\ Show("done")

\* What a finished run leaves behind.
Result ==
    [outcome |-> pc, exit |-> ExitCode(pc), table |-> df, written |-> written,
     charts |-> [n \in written |-> disk[n]]]

\* The script is started again on the same input, in the same directory.
Rerun ==
    /\ pc \in Final
    /\ Len(results) + 1 < MaxRuns
    /\ results' = Append(results, Result)
    /\ pc' = "read_csv"
    /\ df' = NoTable
    /\ fig' = NoFigure
    /\ written' = {}
    /\ UNCHANGED <<file, disk>>

Run ==
    \/ Load
    \/ Plot1
    \/ Savefig1
    \/ Show1
    \/ Plot2
    \/ Savefig2
    \/ Show2
    \/ RelSeq
    \/ RelPar
    \/ RelOpt
    \/ Plot3
    \/ Savefig3
    \/ Show3

Next == Run \/ Rerun

Spec == Init /\ [][Next]_vars

\* The interpreter executes the next statement whenever there is one, and
\* every window opened by plt.show() is eventually closed.
FairSpec == Spec /\ WF_vars(Run)

(***************************************************************************)
(* Vocabulary of the properties                                            *)
(***************************************************************************)
DerivedColumns == {"Sequential Relative", "Parallel Relative", "Optimized Relative"}

BeforeDerive == {"plot1", "savefig1", "show1", "plot2", "savefig2", "show2", "rel_seq"}

AfterDerive == {"plot3", "savefig3", "show3", "done"}

Chart3Drawn == {"savefig3", "show3", "done"}

\* r is the float quotient s / p, for p not zero.
QuotientOf(r, s, p) ==
    IF IsNaN(s) \/ IsNaN(p)
    THEN IsNaN(r)
    ELSE r[2] > 0 /\ r[1] * s[2] * p[1] = r[2] * s[1] * p[2]

\* The cell of column c in data line i, read off the file text.
FieldOf(f, i, c) ==
    LET surplus == IF Len(f.rows[1]) > Len(f.header)
                   THEN Len(f.rows[1]) - Len(f.header) ELSE 0
        pos == surplus + Index(f.header, c)
    IN  IF pos <= Len(f.rows[i]) THEN <<f.rows[i][pos], 1>> ELSE <<0, 0>>

ZeroDenominatorRows ==
    {i \in 1..NRows(df) : IsZero(df["Parallel Time"][i])
                          \/ IsZero(df["Optimized Parallel Time"][i])}

(***************************************************************************)
(* C1: after the derived-column step, every row whose Parallel Time and    *)
(* Optimized Parallel Time are non-zero has Sequential Relative = 1,       *)
(* Parallel Relative = Sequential Time / Parallel Time and Optimized       *)
(* Relative = Sequential Time / Optimized Parallel Time, from that row     *)
(* only; the row (100, 10, 2, 1) yields 5 and 10.                          *)
(***************************************************************************)
C1_DerivedRatios ==
    pc \in AfterDerive =>
        \A i \in 1..NRows(df) :
            LET s == df["Sequential Time"][i]
                p == df["Parallel Time"][i]
                o == df["Optimized Parallel Time"][i]
            IN  (~IsZero(p) /\ ~IsZero(o)) =>
                    /\ df["Sequential Relative"][i] = <<1, 1>>
                    /\ QuotientOf(df["Parallel Relative"][i], s, p)
                    /\ QuotientOf(df["Optimized Relative"][i], s, o)
                    /\ (s = <<10, 1>> /\ p = <<2, 1>> /\ o = <<1, 1>>) =>
                           /\ df["Parallel Relative"][i] = <<5, 1>>
                           /\ df["Optimized Relative"][i] = <<10, 1>>

C1_Witness ==
    /\ pc \in AfterDerive
    /\ NRows(df) = 2
    /\ df["Input Size"][2] = <<100, 1>>
    /\ df["Sequential Time"][2] = <<10, 1>>
    /\ df["Parallel Time"][2] = <<2, 1>>
    /\ df["Optimized Parallel Time"][2] = <<1, 1>>
    /\ df["Parallel Relative"][2] = <<5, 1>>
    /\ df["Optimized Relative"][2] = <<10, 1>>
    /\ df["Parallel Relative"][1] = <<7, 3>>

(***************************************************************************)
(* C2: when the input file has no Optimized Parallel Time column, the run  *)
(* ends in failure while drawing Chart 1; neither                          *)
(* execution_time_comparison.png nor relative_performance_comparison.png   *)
(* is written in that run.                                                 *)
(***************************************************************************)
C2_MissingOptimizedIsFatal ==
    "Optimized Parallel Time" \notin Range(file.header) =>
        /\ pc \in {"read_csv", "plot1", "failed"}
        /\ Chart1File \notin written
        /\ Chart3File \notin written

C2_Witness ==
    /\ file.exists
    /\ "Optimized Parallel Time" \notin Range(file.header)
    /\ df # NoTable
    /\ pc = "failed"
    /\ Len(fig.lines) = 2

(***************************************************************************)
(* C3 as stated: a zero Parallel Time or Optimized Parallel Time is fatal, *)
(* so a table with such a row never gets past the derived-column step and  *)
(* its non-finite value never reaches Chart 3.                             *)
(***************************************************************************)
C3_DivideByZeroIsFatal ==
    pc \in AfterDerive => ZeroDenominatorRows = {}

(***************************************************************************)
(* C3 as amended: the derived-column step raises nothing on a zero         *)
(* denominator.  The row gets +inf (positive Sequential Time) or NaN       *)
(* (Sequential Time 0 or missing), and that value is the height of the     *)
(* row's bar in Chart 3.                                                   *)
(***************************************************************************)
C3_DivideByZeroPropagates ==
    /\ pc \in {"rel_seq", "rel_par", "rel_opt"} =>
           {"Sequential Time", "Parallel Time", "Optimized Parallel Time"}
               \subseteq DOMAIN df
    /\ pc \in AfterDerive =>
        \A i \in 1..NRows(df) :
            LET s == df["Sequential Time"][i]
                nonfinite == IF s[2] > 0 /\ s[1] > 0 THEN <<1, 0>> ELSE <<0, 0>>
            IN  /\ IsZero(df["Parallel Time"][i]) =>
                    /\ df["Parallel Relative"][i] = nonfinite
                    /\ pc \in Chart3Drawn =>
                           fig.bars[NRows(df) + i].height = nonfinite
                /\ IsZero(df["Optimized Parallel Time"][i]) =>
                    /\ df["Optimized Relative"][i] = nonfinite
                    /\ pc \in Chart3Drawn =>
                           fig.bars[2 * NRows(df) + i].height = nonfinite

C3_Witness ==
    /\ pc = "savefig3"
    /\ \E i \in 1..NRows(df) :
          /\ IsZero(df["Optimized Parallel Time"][i])
          /\ df["Optimized Relative"][i] = PosInf
          /\ \E k \in 1..Len(fig.bars) : fig.bars[k].height = PosInf
    /\ \E i \in 1..NRows(df) :
          /\ IsZero(df["Parallel Time"][i])
          /\ df["Parallel Relative"][i] = NaN

(***************************************************************************)
(* C4: the three charts are rendered strictly in order.                    *)
(* execution_time_comparison.png is written before Chart 2 is drawn,       *)
(* speedup_comparison.png before the derived columns and Chart 3, and      *)
(* relative_performance_comparison.png last; no later file is written      *)
(* while an earlier one is not.                                            *)
(***************************************************************************)
C4_RendersInOrder ==
    /\ Chart2File \in written => Chart1File \in written
    /\ Chart3File \in written => Chart2File \in written
    /\ pc \in {"show1", "plot2", "savefig2"} => written = {Chart1File}
    /\ fig.title = "Speedup Comparison" => Chart1File \in written
    /\ pc \in {"show2", "rel_seq", "rel_par", "rel_opt", "plot3", "savefig3"} =>
           written = {Chart1File, Chart2File}
    /\ fig.title = "Relative Performance Comparison" => Chart2File \in written
    /\ pc \in {"show3", "done"} => written = OutputFiles
    /\ pc \in {"read_csv", "plot1", "savefig1"} => written = {}

C4_Witness ==
    /\ pc = "done"
    /\ written = OutputFiles
    /\ disk[Chart1File].fig.title = "Execution Time Comparison"
    /\ disk[Chart2File].fig.title = "Speedup Comparison"
    /\ disk[Chart3File].fig.title = "Relative Performance Comparison"

(***************************************************************************)
(* C5 as stated: every run terminates, success means exit 0 with all three *)
(* files written, and any I/O or parse failure -- a missing input file, a  *)
(* data row whose field count differs from the header's, a missing column  *)
(* -- ends the run in failure (non-zero exit).                             *)
(***************************************************************************)
C5_AnyParseFailureFails ==
    /\ pc = "done" => written = OutputFiles
    /\ (pc \in Final /\ (\/ ~file.exists
                         \/ \E k \in 1..Len(file.rows) :
                               Len(file.rows[k]) # Len(file.header)
                         \/ ~(Range(FullHeader) \subseteq Range(file.header))))
           => (pc = "failed" /\ ExitCode(pc) # 0)

(***************************************************************************)
(* C5 as amended: every run terminates, in success (exit 0) with all three *)
(* files written or in failure (non-zero exit).  Failure is reached when   *)
(* the input file is missing, when a data row after the first has more     *)
(* fields than both the header and the first data row, or when one of the  *)
(* six columns is missing.  A row with fewer fields than the header, or a  *)
(* first data row with more, does not by itself make the run fail.         *)
(***************************************************************************)
C5_Outcome ==
    /\ pc = "done" => (written = OutputFiles /\ ExitCode(pc) = 0)
    /\ pc = "failed" => (written # OutputFiles /\ ExitCode(pc) # 0)
    /\ (\/ ~file.exists
        \/ \E k \in 2..Len(file.rows) :
              /\ Len(file.rows[k]) > Len(file.header)
              /\ Len(file.rows[k]) > Len(file.rows[1])
        \/ ~(Range(FullHeader) \subseteq Range(file.header)))
           => pc # "done"
    /\ (/\ file.exists
        /\ Range(FullHeader) \subseteq Range(file.header)
        /\ \A k \in 2..Len(file.rows) :
              \/ Len(file.rows[k]) <= Len(file.header)
              \/ Len(file.rows[k]) <= Len(file.rows[1]))
           => pc # "failed"

C5_TerminatesWithOutcome ==
    /\ []C5_Outcome
    /\ (pc = "read_csv") ~> (pc \in Final)

C5_Witness ==
    /\ pc = "done"
    /\ written = OutputFiles
    /\ \E k \in 1..Len(file.rows) : Len(file.rows[k]) < Len(file.header)
    /\ Len(results) = 1
    /\ results[1].outcome = "done"

(***************************************************************************)
(* C6: the table's rows are never reordered, filtered or added.  After the *)
(* load the row count is the number of data lines of the file, all columns *)
(* have that length, and every column of the header holds, row by row in   *)
(* file order, the value loaded from the file; the derived-column step     *)
(* changes none of them.                                                   *)
(***************************************************************************)
C6_RowsPreserved ==
    (pc # "read_csv" /\ df # NoTable) =>
        /\ NRows(df) = Len(file.rows)
        /\ \A c \in DOMAIN df : Len(df[c]) = Len(file.rows)
        /\ Range(file.header) \subseteq DOMAIN df
        /\ \A c \in Range(file.header) :
              \A i \in 1..Len(file.rows) : df[c][i] = FieldOf(file, i, c)

C6_Witness ==
    /\ pc = "done"
    /\ DerivedColumns \subseteq DOMAIN df
    /\ NRows(df) = 2
    /\ df["Input Size"] = << <<1000, 1>>, <<100, 1>> >>
    /\ df["Optimized Speedup"] = << <<3, 1>>, <<10, 1>> >>

(***************************************************************************)
(* C7: a run repeated on the same input, whatever output files are already *)
(* in the directory, ends with the same outcome, the same table (loaded    *)
(* and derived columns, same row order), the same set of files written and *)
(* the same numeric series in each chart.                                  *)
(***************************************************************************)
C7_RerunSameResult ==
    pc \in Final => \A k \in 1..Len(results) : results[k] = Result

C7_Witness ==
    /\ pc = "done"
    /\ Len(results) >= 1
    /\ results[1].outcome = "done"
    /\ results[1].charts[Chart3File] = disk[Chart3File]
    /\ NRows(df) = 2

(***************************************************************************)
(* C8: the table is created by the load, changed only by the step that     *)
(* appends the three Relative columns, and that step runs only after       *)
(* Charts 1 and 2 are written: while Charts 1 and 2 are drawn the table    *)
(* has exactly the loaded columns, and a failed run has no derived column. *)
(***************************************************************************)
C8_Lifecycle ==
    /\ [](/\ pc = "read_csv" => df = NoTable
          /\ pc \in BeforeDerive => DOMAIN df = Range(file.header)
          /\ DOMAIN df \cap DerivedColumns # {} =>
                 {Chart1File, Chart2File} \subseteq written
          /\ pc \in AfterDerive => DOMAIN df = Range(file.header) \cup DerivedColumns
          /\ pc = "failed" => DOMAIN df \cap DerivedColumns = {})
    /\ [][df' # df => \/ pc = "read_csv" /\ df = NoTable
                      \/ /\ pc \in {"rel_seq", "rel_par", "rel_opt"}
                         /\ DOMAIN df' \ DOMAIN df \subseteq DerivedColumns
                         /\ DOMAIN df' # DOMAIN df
                         /\ \A c \in DOMAIN df : df'[c] = df[c]
                      \/ pc \in Final /\ pc' = "read_csv"]_vars

C8_Witness ==
    /\ pc = "failed"
    /\ written = {Chart1File}
    /\ df # NoTable
    /\ Len(results) = 1
    /\ results[1].table = df

C10_BarsByRowIndex ==
    pc \in Chart3Drawn =>
        LET n == NRows(df)
            BarsWith(x, h) ==
                {k \in 1..Len(fig.bars) :
                    /\ fig.bars[k].x = x
                    /\ fig.bars[k].height = h
                    /\ fig.bars[k].width = 2}
        IN  /\ Len(fig.bars) = 3 * n
            /\ Len(fig.xticks) = n
            /\ \A i \in 0..(n - 1) :
                  /\ Cardinality({k \in 1..Len(fig.bars) :
                                     fig.bars[k].x \in (10 * i - 5)..(10 * i + 4)}) = 3
                  /\ Cardinality(BarsWith(10 * i - 2, df["Sequential Relative"][i + 1])) = 1
                  /\ Cardinality(BarsWith(10 * i, df["Parallel Relative"][i + 1])) = 1
                  /\ Cardinality(BarsWith(10 * i + 2, df["Optimized Relative"][i + 1])) = 1
                  /\ \E t \in 1..n :
                        fig.xticks[t] = [pos |-> 10 * i, label |-> df["Input Size"][i + 1]]
                  /\ Cardinality({t \in 1..n : fig.xticks[t].pos = 10 * i}) = 1

C10_Witness ==
    /\ pc = "savefig3"
    /\ NRows(df) = 2
    /\ df["Input Size"] = << <<1000, 1>>, <<100, 1>> >>
    /\ \E k \in 1..Len(fig.bars) :
          fig.bars[k] = [x |-> 10, height |-> <<5, 1>>, width |-> 2, label |-> "Parallel"]
    /\ fig.xticks[2] = [pos |-> 10, label |-> <<100, 1>>]

====
